---- MODULE Spec2Model ----
(***************************************************************************)
(* State-machine model of the stock-data ingestion pipeline:               *)
(*   repo/libs/fetcher.py  fetch_daily_time_series (retrying HTTP fetch)   *)
(*   repo/libs/db.py       upsert_stock_rows (chunked, retried upsert)     *)
(* Delays are integers: the fetcher's in hundredths of a second (the       *)
(* jitter factor is a percentage), the store's in seconds.                 *)
(***************************************************************************)
EXTENDS Integers, Sequences, FiniteSets, TLC

VARIABLES
    \* ---- fetcher.py: one call of fetch_daily_time_series
    MAX_RETRIES,    \* configured maximum attempt count (FETCH_MAX_RETRIES)
    fpc,            \* position: "idle", "loop", "returned", "raised"
    attempt,        \* loop variable of `for attempt in range(MAX_RETRIES)`
    requests,       \* the outcomes of the session.get calls made so far, in order
    fsleeps,        \* per _sleep_backoff call so far, in order, the delays (in hundredths
                    \* of a second) time.sleep may have been given: the drawn one is in it
    last_exc,       \* last_exc: class of the last retried error, or None
    fresult,        \* the value returned: a decoded body or NoData (None)
    \* ---- db.py: calls of upsert_stock_rows against one table
    DB_MAX_RETRIES, \* configured per-chunk attempt limit (DB_MAX_RETRIES)
    engine,         \* module-level _engine: None until get_engine() creates it
    store,          \* table stock_data: the sequence of its rows
    dpc,            \* position: "idle", "for", "while", "returned", "raised"
    tuples,         \* the serialized input rows of the current call
    batch_size,     \* the call's batch_size argument
    i,              \* loop variable of the for loop (0-based offset)
    batch_attempt,  \* the chunk's attempt counter
    total,          \* rows counted as written by the current call
    chunks,         \* the chunks formed so far by the current call, in order
    writes,         \* the outcomes of the current chunk's write attempts, in order
    dsleeps,        \* the _sleep_backoff delays of the current chunk, in order
    dresult,        \* the value returned: Ret(count), or NoRet
    exc,            \* the exception raised to the caller, or NoExc
    latest,         \* per key, the tuple most recently committed (history)
    \* ---- fetcher.py: one call of parse_daily_response
    ppc,            \* position: "idle", "find", "loop", "returned", "raised"
    psymbol,        \* the symbol argument
    pjson,          \* the json_data argument
    pidx,           \* number of ts_map items the loop has consumed
    results,        \* results: the rows appended so far
    pmissing,       \* TRUE once the call took the `if not ts_key` branch
    \* ---- stock_job.py: one run of stock_job
    jpc,            \* position of the run
    api_key,        \* whether API_KEY is set
    symbols,        \* symbols: the configured list, stripped, blanks dropped
    si,             \* loop variable i of `for i, sym in enumerate(symbols)`
    all_rows,       \* all_rows
    success_any,    \* success_any
    jlog,           \* the run's events so far, in order (history)
    jresult         \* the run's outcome: JobCount(n), JobFailed(msg) or NoOutcome

fvars == <<MAX_RETRIES, fpc, attempt, requests, fsleeps, last_exc, fresult>>
dvars == <<DB_MAX_RETRIES, engine, store, dpc, tuples, batch_size, i,
           batch_attempt, total, chunks, writes, dsleeps, dresult, exc, latest>>
pvars == <<ppc, psymbol, pjson, pidx, results, pmissing>>
jvars == <<jpc, api_key, symbols, si, all_rows, success_any, jlog, jresult>>
vars == <<fvars, dvars, pvars, jvars>>

None == "None"

\* ---- bounds of the model
MaxFetchRetries == 3    \* MAX_RETRIES ranges over 0..MaxFetchRetries
MaxDbRetries == 2       \* DB_MAX_RETRIES ranges over 0..MaxDbRetries
MaxRows == 5            \* longest input list of upsert_stock_rows
MaxBatch == 2           \* batch_size ranges over 1..MaxBatch
MaxEntries == 3         \* most date entries in a time-series mapping
MaxSymbols == 2         \* most entries of STOCK_SYMBOLS in a run of the job
MaxJobRetries == 1      \* MAX_RETRIES ranges over 0..MaxJobRetries in a run of the job

RECURSIVE Pow2(_)
Pow2(n) == IF n <= 0 THEN 1 ELSE 2 * Pow2(n - 1)

(***************************************************************************)
(*                         repo/libs/fetcher.py                            *)
(***************************************************************************)
BACKOFF_BASE == 1
JITTER == TRUE

\* 0.8 + 0.4 * random.random(), in percent: from JITTER_MIN up to (not
\* reaching) JITTER_MIN + JITTER_SPAN
JITTER_MIN == 80
JITTER_SPAN == 40

\* What one session.get(...) can produce.  kind "json" is a 2xx/3xx response
\* whose body decodes to a JSON object; note/err/ts say whether the object has
\* the key "Note", the key "Error Message", a key starting with "Time Series".
Outcome(kind, note, err, ts) == [kind |-> kind, note |-> note, err |-> err, ts |-> ts]
\* the absence value returned instead of a body
NoData == Outcome("None", FALSE, FALSE, FALSE)
Outcomes ==
    { Outcome(k, FALSE, FALSE, FALSE) :
          k \in {"timeout", "connerr", "http5xx", "http4xx", "badjson", "nondict"} }
    \cup { Outcome("json", n, e, t) : n \in BOOLEAN, e \in BOOLEAN, t \in BOOLEAN }

\* mutants of Classify
ClassifyErrIgnored(o) ==
    IF o.kind \in {"timeout", "connerr"} THEN "transient_net"
    ELSE IF o.kind = "http5xx" THEN "server_error"
    ELSE IF o.kind \in {"http4xx", "nondict"} THEN "unexpected"
    ELSE IF o.kind = "badjson" THEN "decode_error"
    ELSE IF o.note THEN "rate_limit"
    ELSE IF ~o.ts THEN "bad_structure"
    ELSE "ok"
ClassifyNoteFatal(o) ==
    IF o.kind \in {"timeout", "connerr"} THEN "transient_net"
    ELSE IF o.kind = "http5xx" THEN "server_error"
    ELSE IF o.kind \in {"http4xx", "nondict"} THEN "unexpected"
    ELSE IF o.kind = "badjson" THEN "decode_error"
    ELSE IF o.note \/ o.err THEN "api_error"
    ELSE IF ~o.ts THEN "bad_structure"
    ELSE "ok"
ClassifyDecodeRetried(o) ==
    IF o.kind \in {"timeout", "connerr"} THEN "transient_net"
    ELSE IF o.kind = "http5xx" THEN "server_error"
    ELSE IF o.kind \in {"http4xx", "nondict", "badjson"} THEN "unexpected"
    ELSE IF o.note THEN "rate_limit"
    ELSE IF o.err THEN "api_error"
    ELSE IF ~o.ts THEN "bad_structure"
    ELSE "ok"

ClassifyNoStructureCheck(o) ==
    IF o.kind \in {"timeout", "connerr"} THEN "transient_net"
    ELSE IF o.kind = "http5xx" THEN "server_error"
    ELSE IF o.kind \in {"http4xx", "nondict"} THEN "unexpected"
    ELSE IF o.kind = "badjson" THEN "decode_error"
    ELSE IF o.note THEN "rate_limit"
    ELSE IF o.err THEN "api_error"
    ELSE "ok"

\* The branch of the loop body that one outcome takes.
Classify(o) ==
    IF o.kind \in {"timeout", "connerr"} THEN "transient_net"    \* except (Timeout, ConnectionError)
    ELSE IF o.kind = "http5xx" THEN "server_error"               \* 500 <= status < 600
    ELSE IF o.kind \in {"http4xx", "nondict"} THEN "unexpected"  \* raise_for_status / TypeError: except Exception
    ELSE IF o.kind = "badjson" THEN "decode_error"               \* resp.json(): except ValueError
    ELSE IF o.note THEN "rate_limit"                             \* "Note" in data
    ELSE IF o.err THEN "api_error"                               \* "Error Message" in data
    ELSE IF ~o.ts THEN "bad_structure"                           \* no "Time Series" key
    ELSE "ok"

\* the branches that end in `_sleep_backoff(attempt); continue`
RetriedClasses == {"transient_net", "server_error", "unexpected", "rate_limit", "bad_structure"}
\* the branches that end in `return None`
PermanentClasses == {"decode_error", "api_error"}

\* backoff = BACKOFF_BASE * (2 ** attempt), in hundredths of a second
Backoff(a) == BACKOFF_BASE * Pow2(a) * 100
\* _sleep_backoff(attempt): the delays time.sleep can be given, to the nearest
\* hundredth of a second: every value from 0.8 to 1.2 times the backoff when
\* JITTER is set (random.random() is any number in [0, 1)), else the backoff
SleepBackoff(a) ==
    IF JITTER
    THEN ((Backoff(a) * JITTER_MIN) \div 100)..((Backoff(a) * (JITTER_MIN + JITTER_SPAN)) \div 100)
    ELSE {Backoff(a)}

FetchInit ==
    /\ MAX_RETRIES \in 0..MaxFetchRetries
    /\ fpc = "idle"
    /\ attempt = 0
    /\ requests = <<>>
    /\ fsleeps = <<>>
    /\ last_exc = None
    /\ fresult = NoData

\* fetch_daily_time_series called with a usable api_key: enter the loop
FetchCall ==
    /\ fpc = "idle"
    /\ fpc' = "loop"
    /\ attempt' = 0
    /\ last_exc' = None
    /\ UNCHANGED <<MAX_RETRIES, requests, fsleeps, fresult>>
    /\ UNCHANGED <<dvars, pvars, jvars>>

\* called with no api_key (argument and environment both empty): return None
FetchNoKey ==
    /\ fpc = "idle"
    /\ fpc' = "returned"
    /\ fresult' = NoData
    /\ UNCHANGED <<MAX_RETRIES, attempt, requests, fsleeps, last_exc>>
    /\ UNCHANGED <<dvars, pvars, jvars>>

\* one attempt that ends in a retried branch: record the error, sleep, continue
FetchTransient ==
    /\ fpc = "loop"
    /\ attempt < MAX_RETRIES
    /\ \E o \in Outcomes :
          /\ Classify(o) \in RetriedClasses
          /\ requests' = Append(requests, o)
          /\ last_exc' = Classify(o)
          /\ fsleeps' = Append(fsleeps, SleepBackoff(attempt))
    /\ attempt' = attempt + 1
    /\ UNCHANGED <<MAX_RETRIES, fpc, fresult>>
    /\ UNCHANGED <<dvars, pvars, jvars>>

\* one attempt that ends in `return None` (API error message, JSON decode error)
FetchPermanent ==
    /\ fpc = "loop"
    /\ attempt < MAX_RETRIES
    /\ \E o \in Outcomes :
          /\ Classify(o) \in PermanentClasses
          /\ requests' = Append(requests, o)
    /\ fpc' = "returned"
    /\ fresult' = NoData
    /\ UNCHANGED <<MAX_RETRIES, attempt, fsleeps, last_exc>>
    /\ UNCHANGED <<dvars, pvars, jvars>>

\* one attempt that ends in `return data`
FetchSuccess ==
    /\ fpc = "loop"
    /\ attempt < MAX_RETRIES
    /\ \E o \in Outcomes :
          /\ Classify(o) = "ok"
          /\ requests' = Append(requests, o)
          /\ fresult' = o
    /\ fpc' = "returned"
    /\ UNCHANGED <<MAX_RETRIES, attempt, fsleeps, last_exc>>
    /\ UNCHANGED <<dvars, pvars, jvars>>

\* the for loop is exhausted: log and `return None`
FetchExhausted ==
    /\ fpc = "loop"
    /\ attempt >= MAX_RETRIES
    /\ fpc' = "returned"
    /\ fresult' = NoData
    /\ UNCHANGED <<MAX_RETRIES, attempt, requests, fsleeps, last_exc>>
    /\ UNCHANGED <<dvars, pvars, jvars>>

(***************************************************************************)
(*                           repo/libs/db.py                               *)
(***************************************************************************)
DB_BACKOFF_BASE == 1

Min(a, b) == IF a < b THEN a ELSE b

\* ---- texts are sequences of tokens; a raw value is None, text, a dict
\* ---- (a sequence of <<key, value>> string pairs) or an object json.dumps rejects
RawNone == [kind |-> "none", items |-> <<>>, text |-> <<>>]
RawStr(t) == [kind |-> "str", items |-> <<>>, text |-> t]
RawDict(d) == [kind |-> "dict", items |-> d, text |-> <<>>]
RawObject(repr) == [kind |-> "object", items |-> <<>>, text |-> repr]

\* a SQL text value, or NULL
SqlNull == [null |-> TRUE, text |-> <<>>]
SqlText(t) == [null |-> FALSE, text |-> t]

Quoted(s) == <<"\"", s, "\"">>
RECURSIVE JsonItems(_)
JsonItems(d) ==
    IF d = <<>> THEN <<>>
    ELSE Quoted(d[1][1]) \o <<": ">> \o Quoted(d[1][2])
         \o (IF Len(d) > 1 THEN <<", ">> ELSE <<>>) \o JsonItems(Tail(d))
\* json.dumps of a dict of strings
JsonDumps(d) == <<"{">> \o JsonItems(d) \o <<"}">>

\* the raw_json computed for one row
SerializeRaw(raw) ==
    IF raw.kind = "none" THEN SqlNull                           \* raw_val is None
    ELSE IF raw.kind = "str" THEN SqlText(raw.text)             \* isinstance(raw_val, (str, bytes))
    ELSE IF raw.kind = "dict" THEN SqlText(JsonDumps(raw.items))  \* json.dumps(raw_val)
    ELSE SqlText(raw.text)                                      \* except Exception: str(raw_val)

\* an input row (a dict); prices are in cents
Row(sym, ts, o, h, l, c, v, raw) ==
    [symbol |-> sym, ts |-> ts, open |-> o, high |-> h, low |-> l, close |-> c,
     volume |-> v, raw |-> raw]

\* the rows the calls draw their input lists from: two revisions of one
\* (symbol, ts) key and one row of another key
Records ==
    { Row("AAPL", "2024-01-02", 1050, 1100, 1000, 1080, 1000,
          RawDict(<< <<"1. open", "10.5">>, <<"4. close", "10.8">> >>)),
      Row("AAPL", "2024-01-02", 1055, 1110, 1005, 1090, 1200, RawStr(<<"revised">>)),
      Row("MSFT", "2024-01-02", 2000, 2050, 1990, 2010, 500, RawObject(<<"<object>">>)) }

\* the tuple appended for one row
ToTuple(r) ==
    <<r.symbol, r.ts, r.open, r.high, r.low, r.close, r.volume, SerializeRaw(r.raw)>>

KeyOf(t) == <<t[1], t[2]>>
Keys == { <<r.symbol, r.ts>> : r \in Records }
RowKey(row) == <<row.symbol, row.ts>>

\* mutant of UpsertRow: a plain INSERT, without the ON CONFLICT clause
InsertRow(tbl, t) ==
    Append(tbl, [symbol |-> t[1], ts |-> t[2], open |-> t[3], high |-> t[4],
                 low |-> t[5], close |-> t[6], volume |-> t[7], raw |-> t[8]])

\* INSERT ... VALUES t ON CONFLICT (symbol, ts) DO UPDATE SET open .. raw = EXCLUDED
UpsertRow(tbl, t) ==
    IF \E k \in 1..Len(tbl) : RowKey(tbl[k]) = KeyOf(t)
    THEN [k \in 1..Len(tbl) |->
             IF RowKey(tbl[k]) = KeyOf(t)
             THEN [tbl[k] EXCEPT !.open = t[3], !.high = t[4], !.low = t[5],
                                 !.close = t[6], !.volume = t[7], !.raw = t[8]]
             ELSE tbl[k]]
    ELSE Append(tbl, [symbol |-> t[1], ts |-> t[2], open |-> t[3], high |-> t[4],
                      low |-> t[5], close |-> t[6], volume |-> t[7], raw |-> t[8]])

\* one INSERT ... VALUES <page> ON CONFLICT DO UPDATE statement. PostgreSQL
\* rejects a statement that proposes one (symbol, ts) key twice ("ON CONFLICT
\* DO UPDATE command cannot affect row a second time").
RepeatsKey(page) ==
    \E a, b \in 1..Len(page) : a < b /\ KeyOf(page[a]) = KeyOf(page[b])
RECURSIVE UpsertPage(_, _)
UpsertPage(tbl, page) ==
    IF page = <<>> THEN tbl
    ELSE UpsertPage(UpsertRow(tbl, Head(page)), Tail(page))

\* execute_values sends the batch in pages of page_size rows, one statement each
PAGE_SIZE == 100
RECURSIVE Pages(_)
Pages(batch) ==
    IF Len(batch) <= PAGE_SIZE THEN <<batch>>
    ELSE <<SubSeq(batch, 1, PAGE_SIZE)>> \o Pages(SubSeq(batch, PAGE_SIZE + 1, Len(batch)))
RECURSIVE UpsertPages(_, _)
UpsertPages(tbl, pages) ==
    IF pages = <<>> THEN tbl
    ELSE UpsertPages(UpsertPage(tbl, Head(pages)), Tail(pages))

\* execute_values(cur, insert_sql, batch, page_size=100) followed by the commit:
\* [ok, tbl]. A page that repeats a key raises; the transaction is rolled back
\* and the table is as before.
ExecuteValues(tbl, batch) ==
    IF \E n \in 1..Len(Pages(batch)) : RepeatsKey(Pages(batch)[n])
    THEN [ok |-> FALSE, tbl |-> tbl]
    ELSE [ok |-> TRUE, tbl |-> UpsertPages(tbl, Pages(batch))]

\* get_engine() inside a failed attempt: an existing engine is returned; a
\* missing one is created, unless create_engine is what raised
EngineAfterFailure(eng) == IF eng = None THEN {None, "engine"} ELSE {eng}

\* mutant of Batch: the slice is one row short
BatchShort(ts, off, b) == SubSeq(ts, off + 1, Min(off + b, Len(ts)) - 1)

\* batch = tuples[i:i + batch_size]
Batch(ts, off, b) == SubSeq(ts, off + 1, Min(off + b, Len(ts)))

\* _sleep_backoff(attempt): the delay slept, in seconds
DbSleepBackoff(a) == DB_BACKOFF_BASE * Pow2(a)

Ret(n) == [returned |-> TRUE, count |-> n]
NoRet == [returned |-> FALSE, count |-> 0]
NoExc == [type |-> "None", msg |-> "", cause |-> ""]
\* raise RuntimeError("Failed to upsert batch after retries") from e
UpsertError(cause) ==
    [type |-> "RuntimeError", msg |-> "Failed to upsert batch after retries", cause |-> cause]

\* the last tuple of seq with key k (seq has one)
LastWithKey(seq, k) ==
    seq[CHOOSE n \in 1..Len(seq) :
            /\ KeyOf(seq[n]) = k
            /\ \A m \in (n + 1)..Len(seq) : KeyOf(seq[m]) # k]
HasKey(seq, k) == \E n \in 1..Len(seq) : KeyOf(seq[n]) = k

\* all input lists of at most n rows
RowLists(n) == UNION { [1..len -> Records] : len \in 0..n }

StoreInit ==
    /\ DB_MAX_RETRIES \in 0..MaxDbRetries
    /\ engine = None
    /\ store = <<>>
    /\ dpc = "idle"
    /\ tuples = <<>>
    /\ batch_size = 1
    /\ i = 0
    /\ batch_attempt = 0
    /\ total = 0
    /\ chunks = <<>>
    /\ writes = <<>>
    /\ dsleeps = <<>>
    /\ dresult = NoRet
    /\ exc = NoExc
    /\ latest = [k \in Keys |-> <<>>]

\* mutant of UpsertEmpty: the engine is acquired before the emptiness test
UpsertEmptyAfterEngine ==
    /\ dpc = "idle"
    /\ \E b \in 1..MaxBatch : batch_size' = b
    /\ engine' = "engine"
    /\ tuples' = <<>>
    /\ dpc' = "returned"
    /\ dresult' = Ret(0)
    /\ i' = 0 /\ batch_attempt' = 0 /\ total' = 0
    /\ chunks' = <<>> /\ writes' = <<>> /\ dsleeps' = <<>> /\ exc' = NoExc
    /\ UNCHANGED <<DB_MAX_RETRIES, store, latest>>
    /\ UNCHANGED <<fvars, pvars, jvars>>

\* upsert_stock_rows([], batch_size): `if not rows: return 0`
UpsertEmpty ==
    /\ dpc = "idle"
    /\ \E b \in 1..MaxBatch : batch_size' = b
    /\ tuples' = <<>>
    /\ dpc' = "returned"
    /\ dresult' = Ret(0)
    /\ i' = 0 /\ batch_attempt' = 0 /\ total' = 0
    /\ chunks' = <<>> /\ writes' = <<>> /\ dsleeps' = <<>> /\ exc' = NoExc
    /\ UNCHANGED <<DB_MAX_RETRIES, engine, store, latest>>
    /\ UNCHANGED <<fvars, pvars, jvars>>

\* upsert_stock_rows(rows, batch_size), rows not empty: build tuples, total = 0
UpsertCall ==
    /\ dpc = "idle"
    /\ \E rows \in RowLists(MaxRows) \ {<<>>}, b \in 1..MaxBatch :
          /\ tuples' = [k \in 1..Len(rows) |-> ToTuple(rows[k])]
          /\ batch_size' = b
    /\ dpc' = "for"
    /\ dresult' = NoRet
    /\ i' = 0 /\ batch_attempt' = 0 /\ total' = 0
    /\ chunks' = <<>> /\ writes' = <<>> /\ dsleeps' = <<>> /\ exc' = NoExc
    /\ UNCHANGED <<DB_MAX_RETRIES, engine, store, latest>>
    /\ UNCHANGED <<fvars, pvars, jvars>>

\* mutant of ChunkBegin: one attempt counter is shared by all the chunks
ChunkBeginSharedCounter ==
    /\ dpc = "for"
    /\ i < Len(tuples)
    /\ chunks' = Append(chunks, Batch(tuples, i, batch_size))
    /\ writes' = <<>>
    /\ dsleeps' = <<>>
    /\ dpc' = "while"
    /\ UNCHANGED <<DB_MAX_RETRIES, engine, store, tuples, batch_size, i, batch_attempt,
                   total, dresult, exc, latest>>
    /\ UNCHANGED <<fvars, pvars, jvars>>

\* for i in range(0, len(tuples), batch_size): the next chunk is formed
ChunkBegin ==
    /\ dpc = "for"
    /\ i < Len(tuples)
    /\ chunks' = Append(chunks, Batch(tuples, i, batch_size))
    /\ batch_attempt' = 0
    /\ writes' = <<>>
    /\ dsleeps' = <<>>
    /\ dpc' = "while"
    /\ UNCHANGED <<DB_MAX_RETRIES, engine, store, tuples, batch_size, i, total,
                   dresult, exc, latest>>
    /\ UNCHANGED <<fvars, pvars, jvars>>

\* the range is exhausted: `return total`
UpsertReturn ==
    /\ dpc = "for"
    /\ i >= Len(tuples)
    /\ dresult' = Ret(total)
    /\ dpc' = "returned"
    /\ UNCHANGED <<DB_MAX_RETRIES, engine, store, tuples, batch_size, i, batch_attempt,
                   total, chunks, writes, dsleeps, exc, latest>>
    /\ UNCHANGED <<fvars, pvars, jvars>>

CurrentBatch == chunks[Len(chunks)]

\* mutant of WriteOk: total counts the chunks, not their rows
WriteOkCountsChunks ==
    /\ dpc = "while"
    /\ batch_attempt < DB_MAX_RETRIES
    /\ batch_attempt' = batch_attempt + 1
    /\ ExecuteValues(store, CurrentBatch).ok
    /\ engine' = "engine"
    /\ store' = ExecuteValues(store, CurrentBatch).tbl
    /\ latest' = [k \in Keys |->
                     IF HasKey(CurrentBatch, k) THEN LastWithKey(CurrentBatch, k)
                     ELSE latest[k]]
    /\ total' = total + 1
    /\ writes' = Append(writes, "ok")
    /\ i' = i + batch_size
    /\ dpc' = "for"
    /\ UNCHANGED <<DB_MAX_RETRIES, tuples, batch_size, chunks, dsleeps, dresult, exc>>
    /\ UNCHANGED <<fvars, pvars, jvars>>

\* one attempt of the while loop that commits: total += len(batch); break
WriteOk ==
    /\ dpc = "while"
    /\ batch_attempt < DB_MAX_RETRIES
    /\ batch_attempt' = batch_attempt + 1
    /\ ExecuteValues(store, CurrentBatch).ok
    /\ engine' = "engine"
    /\ store' = ExecuteValues(store, CurrentBatch).tbl
    /\ latest' = [k \in Keys |->
                     IF HasKey(CurrentBatch, k) THEN LastWithKey(CurrentBatch, k)
                     ELSE latest[k]]
    /\ total' = total + Len(CurrentBatch)
    /\ writes' = Append(writes, "ok")
    /\ i' = i + batch_size
    /\ dpc' = "for"
    /\ UNCHANGED <<DB_MAX_RETRIES, tuples, batch_size, chunks, dsleeps, dresult, exc>>
    /\ UNCHANGED <<fvars, pvars, jvars>>

\* the error classes of the two except clauses
DbErrors == {"OperationalError", "Exception"}

\* one attempt that fails below the limit: _sleep_backoff(batch_attempt); continue
WriteFailRetry ==
    /\ dpc = "while"
    /\ batch_attempt < DB_MAX_RETRIES
    /\ batch_attempt + 1 < DB_MAX_RETRIES
    /\ batch_attempt' = batch_attempt + 1
    /\ engine' \in EngineAfterFailure(engine)
    /\ \E e \in DbErrors : writes' = Append(writes, e)
    /\ dsleeps' = Append(dsleeps, DbSleepBackoff(batch_attempt + 1))
    /\ UNCHANGED <<DB_MAX_RETRIES, store, dpc, tuples, batch_size, i, total, chunks,
                   dresult, exc, latest>>
    /\ UNCHANGED <<fvars, pvars, jvars>>

\* mutant of WriteFailRaise: the exhausted chunk is skipped and the loop goes on
WriteFailSkipsChunk ==
    /\ dpc = "while"
    /\ batch_attempt < DB_MAX_RETRIES
    /\ batch_attempt + 1 >= DB_MAX_RETRIES
    /\ batch_attempt' = batch_attempt + 1
    /\ engine' \in EngineAfterFailure(engine)
    /\ \E e \in DbErrors : writes' = Append(writes, e)
    /\ i' = i + batch_size
    /\ dpc' = "for"
    /\ UNCHANGED <<DB_MAX_RETRIES, store, tuples, batch_size, total, chunks, dsleeps,
                   dresult, exc, latest>>
    /\ UNCHANGED <<fvars, pvars, jvars>>

\* one attempt that fails at the limit: raise RuntimeError(...) from e
WriteFailRaise ==
    /\ dpc = "while"
    /\ batch_attempt < DB_MAX_RETRIES
    /\ batch_attempt + 1 >= DB_MAX_RETRIES
    /\ batch_attempt' = batch_attempt + 1
    /\ engine' \in EngineAfterFailure(engine)
    /\ \E e \in DbErrors :
          /\ writes' = Append(writes, e)
          /\ exc' = UpsertError(e)
    /\ dpc' = "raised"
    /\ UNCHANGED <<DB_MAX_RETRIES, store, tuples, batch_size, i, total, chunks, dsleeps,
                   dresult, latest>>
    /\ UNCHANGED <<fvars, pvars, jvars>>

\* `while batch_attempt < DB_MAX_RETRIES` is false on entry: the chunk is left unwritten
WhileExit ==
    /\ dpc = "while"
    /\ batch_attempt >= DB_MAX_RETRIES
    /\ i' = i + batch_size
    /\ dpc' = "for"
    /\ UNCHANGED <<DB_MAX_RETRIES, engine, store, tuples, batch_size, batch_attempt, total,
                   chunks, writes, dsleeps, dresult, exc, latest>>
    /\ UNCHANGED <<fvars, pvars, jvars>>

\* the call is over: its frame (locals, result, exception) is gone, the table
\* and the module-level engine stay
UpsertDone ==
    /\ dpc \in {"returned", "raised"}
    /\ dpc' = "idle"
    /\ tuples' = <<>> /\ batch_size' = 1
    /\ i' = 0 /\ batch_attempt' = 0 /\ total' = 0
    /\ chunks' = <<>> /\ writes' = <<>> /\ dsleeps' = <<>>
    /\ dresult' = NoRet /\ exc' = NoExc
    /\ UNCHANGED <<DB_MAX_RETRIES, engine, store, latest>>
    /\ UNCHANGED <<fvars, pvars, jvars>>

(***************************************************************************)
(*              repo/libs/fetcher.py: parse_daily_response                 *)
(***************************************************************************)
\* str.strip() on the symbols of the model
Strip(str) ==
    CASE str = " MSFT " -> "MSFT"
      [] str = " " -> ""
      [] OTHER -> str

\* float(text), in cents, for the literals of the model; any other text raises
FloatLiterals ==
    ("10.5" :> 1050) @@ ("11.0" :> 1100) @@ ("10.0" :> 1000) @@ ("10.8" :> 1080)
    @@ ("1000" :> 100000)
\* int(text) for the literals of the model; any other text raises
IntLiterals == ("1000" :> 1000)

\* values.get(label): the text stored under the label, or None
Get(items, label) ==
    IF \E n \in 1..Len(items) : items[n][1] = label
    THEN items[CHOOSE n \in 1..Len(items) : items[n][1] = label][2]
    ELSE None
Truthy(text) == text # None /\ text # ""

\* values.get(numbered) or values.get(plain) or <default>: the text handed to
\* float()/int(), or None when the default is taken
FieldText(items, numbered, plain) ==
    IF Truthy(Get(items, numbered)) THEN Get(items, numbered)
    ELSE IF Truthy(Get(items, plain)) THEN Get(items, plain)
    ELSE None

\* float(... or 0.0): [ok, v]; ok is FALSE where float() raises
FloatField(items, numbered, plain) ==
    LET text == FieldText(items, numbered, plain)
    IN  IF text = None THEN [ok |-> TRUE, v |-> 0]
        ELSE IF text \in DOMAIN FloatLiterals THEN [ok |-> TRUE, v |-> FloatLiterals[text]]
        ELSE [ok |-> FALSE, v |-> 0]
\* int(... or 0): [ok, v]; ok is FALSE where int() raises
IntField(items, numbered, plain) ==
    LET text == FieldText(items, numbered, plain)
    IN  IF text = None THEN [ok |-> TRUE, v |-> 0]
        ELSE IF text \in DOMAIN IntLiterals THEN [ok |-> TRUE, v |-> IntLiterals[text]]
        ELSE [ok |-> FALSE, v |-> 0]

\* mutant of ParseEntry: the volume is read under the label "5. volume"
ParseEntryWrongVolumeLabel(sym, date, values) ==
    IF values.kind # "dict" THEN [ok |-> FALSE, row |-> Row("", "", 0, 0, 0, 0, 0, RawNone)]
    ELSE LET o == FloatField(values.items, "1. open", "open")
             h == FloatField(values.items, "2. high", "high")
             l == FloatField(values.items, "3. low", "low")
             c == FloatField(values.items, "4. close", "close")
             v == IntField(values.items, "5. volume", "volume")
         IN  IF o.ok /\ h.ok /\ l.ok /\ c.ok /\ v.ok
             THEN [ok |-> TRUE, row |-> Row(Strip(sym), date, o.v, h.v, l.v, c.v, v.v, values)]
             ELSE [ok |-> FALSE, row |-> Row("", "", 0, 0, 0, 0, 0, RawNone)]

\* the body of the loop for one item: [ok, row]; ok is FALSE where the try
\* block raises (values is no mapping, or float()/int() rejects a text)
ParseEntry(sym, date, values) ==
    IF values.kind # "dict" THEN [ok |-> FALSE, row |-> Row("", "", 0, 0, 0, 0, 0, RawNone)]
    ELSE LET o == FloatField(values.items, "1. open", "open")
             h == FloatField(values.items, "2. high", "high")
             l == FloatField(values.items, "3. low", "low")
             c == FloatField(values.items, "4. close", "close")
             v == IntField(values.items, "6. volume", "volume")
         IN  IF o.ok /\ h.ok /\ l.ok /\ c.ok /\ v.ok
             THEN [ok |-> TRUE, row |-> Row(Strip(sym), date, o.v, h.v, l.v, c.v, v.v, values)]
             ELSE [ok |-> FALSE, row |-> Row("", "", 0, 0, 0, 0, 0, RawNone)]

\* a decoded body as parse_daily_response sees it: whether it has a key that
\* starts with "Time Series", whether that key's value is a mapping, its items
Json(hasTs, isMap, entries) == [hasTs |-> hasTs, isMap |-> isMap, entries |-> entries]
NoJson == Json(FALSE, FALSE, <<>>)

\* the per-date value mappings the payloads are built from
ExampleValues ==
    << <<"1. open", "10.5">>, <<"2. high", "11.0">>, <<"3. low", "10.0">>,
       <<"4. close", "10.8">>, <<"6. volume", "1000">> >>
ValueMaps ==
    { RawDict(ExampleValues),
      \* plain labels
      RawDict(<< <<"open", "10.0">>, <<"high", "10.8">>, <<"low", "10.0">>,
                 <<"close", "10.5">>, <<"volume", "1000">> >>),
      \* close absent
      RawDict(<< <<"1. open", "10.5">>, <<"2. high", "11.0">>, <<"3. low", "10.0">>,
                 <<"6. volume", "1000">> >>),
      \* open empty under the numbered label, present under the plain one
      RawDict(<< <<"1. open", "">>, <<"open", "10.8">>, <<"2. high", "11.0">>,
                 <<"3. low", "10.0">>, <<"4. close", "10.8">>, <<"6. volume", "1000">> >>),
      \* high unparseable
      RawDict(<< <<"1. open", "10.5">>, <<"2. high", "n/a">>, <<"3. low", "10.0">>,
                 <<"4. close", "10.8">>, <<"6. volume", "1000">> >>),
      \* volume with a fraction: float() accepts it, int() does not
      RawDict(<< <<"1. open", "10.5">>, <<"2. high", "11.0">>, <<"3. low", "10.0">>,
                 <<"4. close", "10.8">>, <<"6. volume", "10.5">> >>),
      \* null instead of a mapping
      RawNone }
Dates == {"2024-01-02", "2024-01-03", "2024-01-04", "2024-01-05"}
\* the time-series mappings of at most n items (a mapping has no key twice)
TsMaps(n) ==
    { m \in UNION { [1..len -> Dates \X ValueMaps] : len \in 0..n } :
          \A a, b \in 1..Len(m) : m[a][1] = m[b][1] => a = b }
Payloads(n) ==
    {Json(FALSE, FALSE, <<>>), Json(TRUE, FALSE, <<>>)}
    \cup { Json(TRUE, TRUE, m) : m \in TsMaps(n) }
SymbolArgs == {"AAPL", " MSFT "}

ParseInit ==
    /\ ppc = "idle"
    /\ psymbol = ""
    /\ pjson = NoJson
    /\ pidx = 0
    /\ results = <<>>
    /\ pmissing = FALSE

\* parse_daily_response(symbol, json_data) is called: results = []
ParseCall ==
    /\ ppc = "idle"
    /\ \E sym \in SymbolArgs, json \in Payloads(MaxEntries) :
          /\ psymbol' = sym
          /\ pjson' = json
    /\ ppc' = "find"
    /\ pidx' = 0
    /\ results' = <<>>
    /\ pmissing' = FALSE
    /\ UNCHANGED <<fvars, dvars, jvars>>

\* no key starts with "Time Series": log and return the empty list
ParseNoKey ==
    /\ ppc = "find"
    /\ ~pjson.hasTs
    /\ pmissing' = TRUE
    /\ ppc' = "returned"
    /\ UNCHANGED <<psymbol, pjson, pidx, results>>
    /\ UNCHANGED <<fvars, dvars, jvars>>

\* the key is found and its value is a mapping: enter the loop over its items
ParseFoundKey ==
    /\ ppc = "find"
    /\ pjson.hasTs /\ pjson.isMap
    /\ ppc' = "loop"
    /\ UNCHANGED <<psymbol, pjson, pidx, results, pmissing>>
    /\ UNCHANGED <<fvars, dvars, jvars>>

\* the key is found and its value is no mapping: ts_map.items() raises
ParseBadMap ==
    /\ ppc = "find"
    /\ pjson.hasTs /\ ~pjson.isMap
    /\ ppc' = "raised"
    /\ UNCHANGED <<psymbol, pjson, pidx, results, pmissing>>
    /\ UNCHANGED <<fvars, dvars, jvars>>

NextItem == pjson.entries[pidx + 1]

\* one item whose fields parse: append its row
ParseEntryOk ==
    /\ ppc = "loop"
    /\ pidx < Len(pjson.entries)
    /\ ParseEntry(psymbol, NextItem[1], NextItem[2]).ok
    /\ results' = Append(results, ParseEntry(psymbol, NextItem[1], NextItem[2]).row)
    /\ pidx' = pidx + 1
    /\ UNCHANGED <<ppc, psymbol, pjson, pmissing>>
    /\ UNCHANGED <<fvars, dvars, jvars>>

\* mutant of ParseEntrySkip: the loop is left at the first item that raises
ParseEntrySkipBreaks ==
    /\ ppc = "loop"
    /\ pidx < Len(pjson.entries)
    /\ ~ParseEntry(psymbol, NextItem[1], NextItem[2]).ok
    /\ pidx' = Len(pjson.entries)
    /\ UNCHANGED <<ppc, psymbol, pjson, results, pmissing>>
    /\ UNCHANGED <<fvars, dvars, jvars>>

\* one item whose try block raises: log and continue
ParseEntrySkip ==
    /\ ppc = "loop"
    /\ pidx < Len(pjson.entries)
    /\ ~ParseEntry(psymbol, NextItem[1], NextItem[2]).ok
    /\ pidx' = pidx + 1
    /\ UNCHANGED <<ppc, psymbol, pjson, results, pmissing>>
    /\ UNCHANGED <<fvars, dvars, jvars>>

\* the items are exhausted: return results
ParseReturn ==
    /\ ppc = "loop"
    /\ pidx >= Len(pjson.entries)
    /\ ppc' = "returned"
    /\ UNCHANGED <<psymbol, pjson, pidx, results, pmissing>>
    /\ UNCHANGED <<fvars, dvars, jvars>>

(***************************************************************************)
(*                        repo/jobs/stock_job.py                           *)
(***************************************************************************)
POLITE_DELAY == 12
\* the default of upsert_stock_rows' batch_size parameter
DefaultBatchSize == 200

\* the run's outcome
JobCount(n) == [status |-> "ok", count |-> n, msg |-> ""]
JobFailed(msg) == [status |-> "failed", count |-> 0, msg |-> msg]
NoOutcome == [status |-> "None", count |-> 0, msg |-> ""]

\* an event of the run: what happened, for which symbol, with which number
Event(ev, sym, n) == [ev |-> ev, sym |-> sym, n |-> n]

\* [s.strip() for s in entries if s.strip()]
RECURSIVE StripAll(_)
StripAll(entries) ==
    IF entries = <<>> THEN <<>>
    ELSE IF Strip(Head(entries)) = "" THEN StripAll(Tail(entries))
    ELSE <<Strip(Head(entries))>> \o StripAll(Tail(entries))

\* the entries STOCK_SYMBOLS.split(",") can yield
SymbolEntries == {"AAPL", " MSFT ", " "}
EntryLists(n) == UNION { [1..len -> SymbolEntries] : len \in 1..n }

\* the bodies a successful fetch hands to the parser in a run of the job
JobTsMaps ==
    { <<>>,
      << <<"2024-01-02", RawDict(ExampleValues)>> >>,
      << <<"2024-01-02", RawNone>>, <<"2024-01-03", RawDict(ExampleValues)>> >> }
JobPayloads(hasTs) ==
    IF hasTs THEN {Json(TRUE, FALSE, <<>>)} \cup { Json(TRUE, TRUE, m) : m \in JobTsMaps }
    ELSE {Json(FALSE, FALSE, <<>>)}

\* before the run, symbols holds the entries of STOCK_SYMBOLS.split(",")
JobInit ==
    /\ jpc = "idle"
    /\ api_key \in BOOLEAN
    /\ symbols \in EntryLists(MaxSymbols)
    /\ si = 0
    /\ all_rows = <<>>
    /\ success_any = FALSE
    /\ jlog = <<>>
    /\ jresult = NoOutcome

\* fetch_and_parse: `if not API_KEY: raise`
JobNoKey ==
    /\ jpc = "idle"
    /\ ~api_key
    /\ jpc' = "failed"
    /\ jresult' = JobFailed("API_KEY not set")
    /\ UNCHANGED <<api_key, symbols, si, all_rows, success_any, jlog>>
    /\ UNCHANGED <<fvars, dvars, pvars>>

\* fetch_and_parse: `if not symbols: raise`
JobNoSymbols ==
    /\ jpc = "idle"
    /\ api_key
    /\ StripAll(symbols) = <<>>
    /\ symbols' = <<>>
    /\ jpc' = "failed"
    /\ jresult' = JobFailed("No STOCK_SYMBOLS configured")
    /\ UNCHANGED <<api_key, si, all_rows, success_any, jlog>>
    /\ UNCHANGED <<fvars, dvars, pvars>>

\* fetch_and_parse: the session is made, all_rows = [], success_any = False
JobStart ==
    /\ jpc = "idle"
    /\ api_key
    /\ StripAll(symbols) # <<>>
    /\ symbols' = StripAll(symbols)
    /\ si' = 0
    /\ all_rows' = <<>>
    /\ success_any' = FALSE
    /\ jpc' = "for"
    /\ UNCHANGED <<api_key, jlog, jresult>>
    /\ UNCHANGED <<fvars, dvars, pvars>>

\* the symbol of the current iteration
Sym == symbols[si + 1]

\* the loop body starts: fetch_daily_time_series(sym, api_key, session=session)
JobFetchCall ==
    /\ jpc = "for"
    /\ si < Len(symbols)
    /\ fpc' = "loop"
    /\ attempt' = 0
    /\ last_exc' = None
    /\ requests' = <<>>
    /\ fsleeps' = <<>>
    /\ fresult' = NoData
    /\ jlog' = Append(jlog, Event("fetch", Sym, si))
    /\ jpc' = "fetching"
    /\ UNCHANGED <<MAX_RETRIES, api_key, symbols, si, all_rows, success_any, jresult>>
    /\ UNCHANGED <<dvars, pvars>>

\* `if not json_data: logger.error(...); continue`: the next iteration starts
\* at once, the statements after the try block are not reached
JobNoData ==
    /\ jpc = "fetching"
    /\ fpc = "returned"
    /\ fresult = NoData
    /\ fpc' = "idle"
    /\ requests' = <<>>
    /\ fsleeps' = <<>>
    /\ jlog' = Append(jlog, Event("nodata", Sym, si))
    /\ si' = si + 1
    /\ jpc' = "for"
    /\ UNCHANGED <<MAX_RETRIES, attempt, last_exc, fresult>>
    /\ UNCHANGED <<api_key, symbols, all_rows, success_any, jresult>>
    /\ UNCHANGED <<dvars, pvars>>

\* json_data is a payload: parse_daily_response(sym, json_data)
JobParseCall ==
    /\ jpc = "fetching"
    /\ fpc = "returned"
    /\ fresult # NoData
    /\ \E json \in JobPayloads(fresult.ts) : pjson' = json
    /\ psymbol' = Sym
    /\ ppc' = "find"
    /\ pidx' = 0
    /\ results' = <<>>
    /\ pmissing' = FALSE
    /\ fpc' = "idle"
    /\ requests' = <<>>
    /\ fsleeps' = <<>>
    /\ fresult' = NoData
    /\ jpc' = "parsing"
    /\ UNCHANGED <<MAX_RETRIES, attempt, last_exc>>
    /\ UNCHANGED <<api_key, symbols, si, all_rows, success_any, jlog, jresult>>
    /\ UNCHANGED dvars

\* `if rows: success_any = True; all_rows.extend(rows)`
JobRows ==
    /\ jpc = "parsing"
    /\ ppc = "returned"
    /\ results # <<>>
    /\ success_any' = TRUE
    /\ all_rows' = all_rows \o results
    /\ jlog' = Append(jlog, Event("rows", Sym, Len(results)))
    /\ jpc' = "tail"
    /\ ppc' = "idle" /\ psymbol' = "" /\ pjson' = NoJson /\ pidx' = 0
    /\ results' = <<>> /\ pmissing' = FALSE
    /\ UNCHANGED <<api_key, symbols, si, jresult>>
    /\ UNCHANGED <<fvars, dvars>>

\* mutant of JobZeroRows: an empty list counts as a success
JobZeroRowsCounted ==
    /\ jpc = "parsing"
    /\ ppc = "returned"
    /\ results = <<>>
    /\ success_any' = TRUE
    /\ jlog' = Append(jlog, Event("zero", Sym, 0))
    /\ jpc' = "tail"
    /\ ppc' = "idle" /\ psymbol' = "" /\ pjson' = NoJson /\ pidx' = 0
    /\ results' = <<>> /\ pmissing' = FALSE
    /\ UNCHANGED <<api_key, symbols, si, all_rows, jresult>>
    /\ UNCHANGED <<fvars, dvars>>

\* `else: logger.warning("No rows parsed ...")`
JobZeroRows ==
    /\ jpc = "parsing"
    /\ ppc = "returned"
    /\ results = <<>>
    /\ jlog' = Append(jlog, Event("zero", Sym, 0))
    /\ jpc' = "tail"
    /\ ppc' = "idle" /\ psymbol' = "" /\ pjson' = NoJson /\ pidx' = 0
    /\ results' = <<>> /\ pmissing' = FALSE
    /\ UNCHANGED <<api_key, symbols, si, all_rows, success_any, jresult>>
    /\ UNCHANGED <<fvars, dvars>>

\* mutant of JobException: the exception ends the run
JobExceptionAborts ==
    /\ jpc = "parsing"
    /\ ppc = "raised"
    /\ jlog' = Append(jlog, Event("exception", Sym, 0))
    /\ jpc' = "failed"
    /\ jresult' = JobFailed("exception")
    /\ ppc' = "idle" /\ psymbol' = "" /\ pjson' = NoJson /\ pidx' = 0
    /\ results' = <<>> /\ pmissing' = FALSE
    /\ UNCHANGED <<api_key, symbols, si, all_rows, success_any>>
    /\ UNCHANGED <<fvars, dvars>>

\* `except Exception as e: logger.exception(...)`
JobException ==
    /\ jpc = "parsing"
    /\ ppc = "raised"
    /\ jlog' = Append(jlog, Event("exception", Sym, 0))
    /\ jpc' = "tail"
    /\ ppc' = "idle" /\ psymbol' = "" /\ pjson' = NoJson /\ pidx' = 0
    /\ results' = <<>> /\ pmissing' = FALSE
    /\ UNCHANGED <<api_key, symbols, si, all_rows, success_any, jresult>>
    /\ UNCHANGED <<fvars, dvars>>

\* `if i < len(symbols) - 1: time.sleep(POLITE_DELAY)`, then the next iteration
JobTail ==
    /\ jpc = "tail"
    /\ jlog' = IF si < Len(symbols) - 1
               THEN Append(jlog, Event("sleep", "", POLITE_DELAY))
               ELSE jlog
    /\ si' = si + 1
    /\ jpc' = "for"
    /\ UNCHANGED <<api_key, symbols, all_rows, success_any, jresult>>
    /\ UNCHANGED <<fvars, dvars, pvars>>

\* mutant of JobNothingFetched: the empty aggregate is returned
JobNothingFetchedReturns ==
    /\ jpc = "for"
    /\ si >= Len(symbols)
    /\ ~success_any
    /\ jpc' = "upsert_rows"
    /\ UNCHANGED <<api_key, symbols, si, all_rows, success_any, jlog, jresult>>
    /\ UNCHANGED <<fvars, dvars, pvars>>

\* the loop is over: `if not success_any: raise Exception("No data fetched for any symbol.")`
JobNothingFetched ==
    /\ jpc = "for"
    /\ si >= Len(symbols)
    /\ ~success_any
    /\ jpc' = "failed"
    /\ jresult' = JobFailed("No data fetched for any symbol.")
    /\ UNCHANGED <<api_key, symbols, si, all_rows, success_any, jlog>>
    /\ UNCHANGED <<fvars, dvars, pvars>>

\* the loop is over: `return all_rows`; stock_job hands the list to upsert_rows
JobFetched ==
    /\ jpc = "for"
    /\ si >= Len(symbols)
    /\ success_any
    /\ jpc' = "upsert_rows"
    /\ UNCHANGED <<api_key, symbols, si, all_rows, success_any, jlog, jresult>>
    /\ UNCHANGED <<fvars, dvars, pvars>>

\* mutant of JobUpsertCall: the first record of the aggregate is left out
JobUpsertCallDropsFirst ==
    /\ jpc = "upsert_rows"
    /\ dpc = "idle"
    /\ IF all_rows = <<>>
       THEN /\ jpc' = "done"
            /\ jresult' = JobCount(0)
            /\ UNCHANGED <<jlog, dvars>>
       ELSE /\ tuples' = [k \in 1..(Len(all_rows) - 1) |-> ToTuple(all_rows[k + 1])]
            /\ batch_size' = DefaultBatchSize
            /\ dpc' = "for"
            /\ dresult' = NoRet
            /\ i' = 0 /\ batch_attempt' = 0 /\ total' = 0
            /\ chunks' = <<>> /\ writes' = <<>> /\ dsleeps' = <<>> /\ exc' = NoExc
            /\ jlog' = Append(jlog, Event("upsert", "", Len(all_rows)))
            /\ jpc' = "upserting"
            /\ UNCHANGED <<DB_MAX_RETRIES, engine, store, latest, jresult>>
    /\ UNCHANGED <<api_key, symbols, si, all_rows, success_any>>
    /\ UNCHANGED <<fvars, pvars>>

\* upsert_rows(rows): `if not rows: return 0`, else upsert_stock_rows(rows)
\* with the default batch size
JobUpsertCall ==
    /\ jpc = "upsert_rows"
    /\ dpc = "idle"
    /\ IF all_rows = <<>>
       THEN /\ jpc' = "done"
            /\ jresult' = JobCount(0)
            /\ UNCHANGED <<jlog, dvars>>
       ELSE /\ tuples' = [k \in 1..Len(all_rows) |-> ToTuple(all_rows[k])]
            /\ batch_size' = DefaultBatchSize
            /\ dpc' = "for"
            /\ dresult' = NoRet
            /\ i' = 0 /\ batch_attempt' = 0 /\ total' = 0
            /\ chunks' = <<>> /\ writes' = <<>> /\ dsleeps' = <<>> /\ exc' = NoExc
            /\ jlog' = Append(jlog, Event("upsert", "", Len(all_rows)))
            /\ jpc' = "upserting"
            /\ UNCHANGED <<DB_MAX_RETRIES, engine, store, latest, jresult>>
    /\ UNCHANGED <<api_key, symbols, si, all_rows, success_any>>
    /\ UNCHANGED <<fvars, pvars>>

\* upsert_stock_rows returned: `return count`
JobDone ==
    /\ jpc = "upserting"
    /\ dpc = "returned"
    /\ jresult' = JobCount(dresult.count)
    /\ jpc' = "done"
    /\ UNCHANGED <<api_key, symbols, si, all_rows, success_any, jlog>>
    /\ UNCHANGED <<fvars, dvars, pvars>>

\* upsert_stock_rows raised: `except Exception: ...; raise`
JobUpsertFailed ==
    /\ jpc = "upserting"
    /\ dpc = "raised"
    /\ jresult' = JobFailed(exc.msg)
    /\ jpc' = "failed"
    /\ UNCHANGED <<api_key, symbols, si, all_rows, success_any, jlog>>
    /\ UNCHANGED <<fvars, dvars, pvars>>

\* no run of the job is under way
JobIdle ==
    /\ JobInit
    /\ ~api_key
    /\ symbols = <<" ">>

(***************************************************************************)
(*                           specifications                                *)
(***************************************************************************)
\* one call of fetch_daily_time_series; the store is untouched
InitFetch == FetchInit /\ StoreInit /\ DB_MAX_RETRIES = 0 /\ ParseInit /\ JobIdle
NextFetch ==
    \/ FetchCall
    \/ FetchNoKey
    \/ FetchTransient
    \/ FetchPermanent
    \/ FetchSuccess
    \/ FetchExhausted
SpecFetch == InitFetch /\ [][NextFetch]_vars

\* calls of upsert_stock_rows, one after the other; the fetcher is idle
InitStore == StoreInit /\ FetchInit /\ MAX_RETRIES = 0 /\ ParseInit /\ JobIdle
NextStore ==
    \/ UpsertEmpty
    \/ UpsertCall
    \/ ChunkBegin
    \/ UpsertReturn
    \/ WriteOk
    \/ WriteFailRetry
    \/ WriteFailRaise
    \/ WhileExit
    \/ UpsertDone
SpecStore == InitStore /\ [][NextStore]_vars

\* ---- parse_daily_response alone
InitParse == FetchInit /\ MAX_RETRIES = 0 /\ StoreInit /\ DB_MAX_RETRIES = 0 /\ ParseInit /\ JobIdle
NextParse ==
    \/ ParseCall
    \/ ParseNoKey
    \/ ParseFoundKey
    \/ ParseBadMap
    \/ ParseEntryOk
    \/ ParseEntrySkip
    \/ ParseReturn
SpecParse == InitParse /\ [][NextParse]_vars

\* ---- one run of stock_job: the driver makes the calls, the callees' steps
\* ---- are those of the three functions. ParseNoKey is not a step of a run:
\* ---- C19 shows its guard false at every call the driver makes.
InitJob == FetchInit /\ MAX_RETRIES <= MaxJobRetries /\ StoreInit /\ ParseInit /\ JobInit
NextJob ==
    \/ JobNoKey
    \/ JobNoSymbols
    \/ JobStart
    \/ JobFetchCall
    \/ FetchTransient
    \/ FetchPermanent
    \/ FetchSuccess
    \/ FetchExhausted
    \/ JobNoData
    \/ JobParseCall
    \/ ParseFoundKey
    \/ ParseBadMap
    \/ ParseEntryOk
    \/ ParseEntrySkip
    \/ ParseReturn
    \/ JobRows
    \/ JobZeroRows
    \/ JobException
    \/ JobTail
    \/ JobNothingFetched
    \/ JobFetched
    \/ JobUpsertCall
    \/ ChunkBegin
    \/ WriteOk
    \/ WriteFailRetry
    \/ WriteFailRaise
    \/ WhileExit
    \/ UpsertReturn
    \/ JobDone
    \/ JobUpsertFailed
SpecJob == InitJob /\ [][NextJob]_vars

(***************************************************************************)
(*                    properties of fetch_daily_time_series                *)
(***************************************************************************)
Last(seq) == seq[Len(seq)]

\* the outcomes, told apart by what the response is (not by the branch taken)
HasErrorMessage(o) == o.kind = "json" /\ o.err
HasNote(o) == o.kind = "json" /\ o.note
IsPayload(o) == o.kind = "json" /\ ~o.note /\ ~o.err /\ o.ts
IsPermanentError(o) == o.kind = "badjson" \/ (HasErrorMessage(o) /\ ~HasNote(o))
\* timeout, connection failure, 5xx, rate-limit marker, missing time-series key
IsListedTransient(o) ==
    \/ o.kind \in {"timeout", "connerr", "http5xx"}
    \/ HasNote(o)
    \/ (o.kind = "json" /\ ~o.err /\ ~o.ts)
\* the errors caught by the final `except Exception`: a 4xx status raised by
\* raise_for_status, a body that is no JSON object
IsUnexpectedError(o) == o.kind \in {"http4xx", "nondict"}

\* request k was the call's last one, the call returned None, and the only
\* sleeps are those of the k - 1 requests before it
FailedImmediatelyAt(k) ==
    /\ k = Len(requests)
    /\ fpc = "returned"
    /\ fresult = NoData
    /\ Len(fsleeps) = k - 1

\* C1 as stated: every decoded body with the key "Error Message", on whichever
\* attempt it arrives, makes the fetch fail at once: None is returned, no
\* further request is made and no backoff sleep follows.
C1_AnyErrorMessageFailsImmediately ==
    \A k \in 1..Len(requests) : HasErrorMessage(requests[k]) => FailedImmediatelyAt(k)

\* C1 amended: every decoded body with the key "Error Message" and without the
\* key "Note", on whichever attempt it arrives, makes the fetch fail at once:
\* None is returned, no further request is made and no backoff sleep follows.
C1_ErrorMessageWithoutNoteFailsImmediately ==
    \A k \in 1..Len(requests) :
        (HasErrorMessage(requests[k]) /\ ~HasNote(requests[k])) => FailedImmediatelyAt(k)

\* an error message that arrives on the third attempt, after two retried ones
C1_Witness ==
    /\ fpc = "returned"
    /\ Len(requests) = 3
    /\ HasErrorMessage(requests[3]) /\ ~HasNote(requests[3])
    /\ Len(fsleeps) = 2
    /\ fresult = NoData

AllNotes == requests # <<>> /\ \A k \in 1..Len(requests) : HasNote(requests[k])

\* C2 as stated: for every configured maximum attempt count, when every
\* response carries "Note", the fetch makes at least two requests, at most
\* MAX_RETRIES requests, and returns None.
C2_NoteRetriedForEveryMaximum ==
    (fpc = "returned" /\ AllNotes) =>
        /\ Len(requests) >= 2
        /\ Len(requests) <= MAX_RETRIES
        /\ fresult = NoData

\* C2 amended: when every response carries "Note", the fetch makes at most
\* MAX_RETRIES requests and returns None, and for every configured maximum
\* attempt count of at least 2 it makes at least two requests (one retry).
C2_NoteRetriedWhenMaximumAtLeastTwo ==
    (fpc = "returned" /\ AllNotes) =>
        /\ Len(requests) <= MAX_RETRIES
        /\ fresult = NoData
        /\ (MAX_RETRIES >= 2 => Len(requests) >= 2)

\* three rate-limited responses use up a maximum of three attempts
C2_Witness ==
    /\ fpc = "returned"
    /\ AllNotes
    /\ MAX_RETRIES = 3
    /\ Len(requests) = 3
    /\ fresult = NoData

\* the part of C3 that does not depend on which outcomes count as transient:
\* requests stop at the first payload, the first permanent error or the
\* maximum; the payload is returned on success, None otherwise; nothing is raised
FetchStopsAndReturns ==
    /\ fpc # "raised"
    /\ Len(requests) <= MAX_RETRIES
    /\ \A k \in 1..(Len(requests) - 1) :
          ~IsPayload(requests[k]) /\ ~IsPermanentError(requests[k])
    /\ fpc = "returned" =>
          /\ (requests # <<>> /\ IsPayload(Last(requests))) => fresult = Last(requests)
          /\ (requests = <<>> \/ ~IsPayload(Last(requests))) => fresult = NoData
          /\ (requests # <<>> /\ ~IsPayload(Last(requests))
                /\ ~IsPermanentError(Last(requests))) => Len(requests) = MAX_RETRIES

\* C3 as stated: requests are issued until the first success, the first
\* permanent error or the maximum attempt count; only timeout, connection
\* failure, 5xx, rate-limit marker and missing time-series key are followed by
\* another attempt; the payload is returned on success, None otherwise, and
\* no exception is raised.
C3_OnlyListedTransientsRetried ==
    /\ FetchStopsAndReturns
    /\ \A k \in 1..(Len(requests) - 1) : IsListedTransient(requests[k])

\* C3 amended: as stated, except that the outcomes followed by another attempt
\* are the listed transient ones and any other unexpected exception (a non-5xx
\* HTTP error status, a decoded body that is not a JSON object).
C3_TransientsAndUnexpectedRetried ==
    /\ FetchStopsAndReturns
    /\ \A k \in 1..(Len(requests) - 1) :
          IsListedTransient(requests[k]) \/ IsUnexpectedError(requests[k])

\* a payload returned on the third attempt, after a timeout and a 4xx status
C3_Witness ==
    /\ fpc = "returned"
    /\ Len(requests) = 3
    /\ requests[1].kind = "timeout"
    /\ requests[2].kind = "http4xx"
    /\ IsPayload(requests[3])
    /\ fresult = requests[3]

(***************************************************************************)
(*                      properties of upsert_stock_rows                    *)
(***************************************************************************)
\* the table's row with key k, if it has one, holds the values of tuple t
RowHolds(k, t) ==
    \E n \in 1..Len(store) :
        /\ RowKey(store[n]) = k
        /\ <<store[n].open, store[n].high, store[n].low, store[n].close,
             store[n].volume, store[n].raw>> = <<t[3], t[4], t[5], t[6], t[7], t[8]>>

\* the chunk formed last has just been committed
JustCommitted == chunks # <<>> /\ writes # <<>> /\ Last(writes) = "ok"

\* C4 as stated: the table holds one row per (symbol, ts) key, with the values
\* of the record written last with that key; upserting one key twice with
\* different values leaves one row with the second values, also when both
\* records are in the chunk being written: the store accepts the chunk and
\* each of its keys ends with the values of the chunk's last record of that key.
C4_SameKeyTwiceLeavesSecondValues ==
    /\ \A a, b \in 1..Len(store) : RowKey(store[a]) = RowKey(store[b]) => a = b
    /\ \A k \in Keys : latest[k] # <<>> => RowHolds(k, latest[k])
    /\ (dpc = "while" /\ batch_attempt < DB_MAX_RETRIES) =>
          /\ ExecuteValues(store, CurrentBatch).ok
          /\ \A n \in 1..Len(CurrentBatch) :
                \E m \in 1..Len(ExecuteValues(store, CurrentBatch).tbl) :
                    LET row == ExecuteValues(store, CurrentBatch).tbl[m]
                        t == LastWithKey(CurrentBatch, KeyOf(CurrentBatch[n]))
                    IN  /\ RowKey(row) = KeyOf(t)
                        /\ <<row.open, row.high, row.low, row.close, row.volume, row.raw>>
                              = <<t[3], t[4], t[5], t[6], t[7], t[8]>>

\* What holds of the writes that commit: the table has exactly one row per
\* (symbol, ts) key that was ever committed and none for the others, the row
\* holds the open/high/low/close/volume/raw of the record committed last with
\* that key, and writing the chunk just committed once more would change nothing.
C4_OneRowPerKeyLastWriteWins ==
    /\ \A a, b \in 1..Len(store) : RowKey(store[a]) = RowKey(store[b]) => a = b
    /\ \A k \in Keys :
          IF latest[k] = <<>>
          THEN \A n \in 1..Len(store) : RowKey(store[n]) # k
          ELSE RowHolds(k, latest[k])
    /\ JustCommitted => ExecuteValues(store, CurrentBatch) = [ok |-> TRUE, tbl |-> store]

\* both revisions of the AAPL row were written, the first then the second, in
\* two chunks: one AAPL row is left, with the second revision's values
C4_Witness ==
    /\ dpc = "returned"
    /\ batch_size = 1
    /\ Len(tuples) = 2
    /\ tuples[1][6] = 1080 /\ tuples[2][6] = 1090
    /\ dresult = Ret(2)
    /\ Len(store) = 1
    /\ store[1].close = 1090 /\ store[1].raw = SqlText(<<"revised">>)

AllFailures(w) == \A k \in 1..Len(w) : w[k] \in DbErrors
\* the chunk formed last has failed DB_MAX_RETRIES times
ChunkExhausted ==
    /\ chunks # <<>>
    /\ DB_MAX_RETRIES >= 1
    /\ Len(writes) >= DB_MAX_RETRIES
    /\ AllFailures(writes)
\* the tuples of the chunks before the one formed last
EarlierTuples == SubSeq(tuples, 1, (Len(chunks) - 1) * batch_size)

\* C5: when a chunk has exhausted its retries the call has failed with a
\* RuntimeError and no count, no chunk after the failed one was formed or
\* written, and every key of the earlier chunks still has its row, with the
\* values written last for it by this call.
C5_ExhaustedChunkFailsCallKeepsEarlierRows ==
    ChunkExhausted =>
        /\ dpc = "raised"
        /\ exc.type = "RuntimeError"
        /\ dresult = NoRet
        /\ i = (Len(chunks) - 1) * batch_size
        /\ \A k \in Keys :
              HasKey(EarlierTuples, k) => RowHolds(k, LastWithKey(EarlierTuples, k))

\* the second of three chunks is exhausted; the first chunk's rows are stored
C5_Witness ==
    /\ dpc = "raised"
    /\ Len(chunks) = 2
    /\ Len(tuples) > 2 * batch_size
    /\ ChunkExhausted
    /\ store # <<>>
    /\ \A k \in Keys : HasKey(EarlierTuples, k) => RowHolds(k, LastWithKey(EarlierTuples, k))

\* ceil(n / b)
CeilDiv(n, b) == (n + b - 1) \div b

\* C6: the chunks formed are consecutive slices of the input in input order,
\* chunk c starting after (c - 1) * b rows; each has b rows except that the
\* last of the ceil(n / b) chunks has the n - (ceil(n / b) - 1) * b rows left;
\* a call that returns has formed exactly ceil(n / b) chunks, and their
\* concatenation is the input.
C6_ChunksPartitionInput ==
    LET n == Len(tuples)
        b == batch_size
    IN  /\ Len(chunks) <= CeilDiv(n, b)
        /\ \A c \in 1..Len(chunks) :
              /\ Len(chunks[c]) = (IF c < CeilDiv(n, b) THEN b ELSE n - (c - 1) * b)
              /\ Len(chunks[c]) \in 1..b
              /\ \A j \in 1..Len(chunks[c]) : chunks[c][j] = tuples[(c - 1) * b + j]
        /\ dpc = "returned" => Len(chunks) = CeilDiv(n, b)

\* five rows in chunks of two: chunks of 2, 2 and 1 rows
C6_Witness ==
    /\ dpc = "returned"
    /\ Len(tuples) = 5 /\ batch_size = 2
    /\ Len(chunks) = 3
    /\ Len(chunks[1]) = 2 /\ Len(chunks[2]) = 2 /\ Len(chunks[3]) = 1

\* C7: each chunk's counter counts that chunk's write attempts only (it starts
\* from zero with the chunk), a chunk is written at most DB_MAX_RETRIES times,
\* a failed attempt of either error class below the limit is followed by a
\* sleep and another attempt, and the call fails only when the chunk has
\* failed exactly DB_MAX_RETRIES times.
C7_PerChunkBoundedRetries ==
    /\ batch_attempt = Len(writes)
    /\ Len(writes) <= DB_MAX_RETRIES
    /\ \A k \in 1..Len(writes) :
          writes[k] \in DbErrors =>
              IF k < DB_MAX_RETRIES
              THEN /\ dpc # "while" => k < Len(writes)
                   /\ k <= Len(dsleeps)
              ELSE dpc = "raised"
    /\ dpc = "raised" =>
          /\ Len(writes) = DB_MAX_RETRIES
          /\ AllFailures(writes)
          /\ Len(dsleeps) = DB_MAX_RETRIES - 1

\* the second chunk fails twice, by a connectivity error and then by another
\* error, after the first chunk was written
C7_Witness ==
    /\ dpc = "raised"
    /\ Len(chunks) = 2
    /\ total = batch_size
    /\ DB_MAX_RETRIES = 2
    /\ writes = <<"OperationalError", "Exception">>

\* C8 as stated: the exception raised when a chunk exhausted its retries
\* carries the index of the failed chunk and that chunk's row count.
C8_FailureCarriesChunkIndexAndRowCount ==
    dpc = "raised" =>
        /\ "chunk_index" \in DOMAIN exc
        /\ "row_count" \in DOMAIN exc
        /\ exc.chunk_index = Len(chunks)
        /\ exc.row_count = Len(CurrentBatch)

\* C9: a call with an empty list returns 0 in one step that acquires no
\* engine, forms and writes no chunk, sleeps never and leaves the table as it was.
C9_EmptyInputTouchesNothing ==
    [][(dpc = "idle" /\ dpc' # "idle" /\ tuples' = <<>>) =>
          /\ dpc' = "returned"
          /\ dresult' = Ret(0)
          /\ engine' = engine
          /\ store' = store
          /\ latest' = latest
          /\ chunks' = <<>> /\ writes' = <<>> /\ dsleeps' = <<>>
          /\ batch_attempt' = 0]_vars

\* an empty call that was the first call: no engine exists, the table is empty
C9_Witness ==
    /\ dpc = "returned"
    /\ tuples = <<>>
    /\ dresult = Ret(0)
    /\ engine = None
    /\ store = <<>>

\* C10 as stated: whenever the call returns normally the count returned is the
\* number of input records.
C10_ReturnedCountIsInputLength ==
    dpc = "returned" => dresult = Ret(Len(tuples))

\* C10 amended: whenever the call returns normally with DB_MAX_RETRIES >= 1,
\* the count returned is the number of input records, whatever failures were
\* retried; with DB_MAX_RETRIES = 0 no chunk is written and 0 is returned.
C10_ReturnedCountIsInputLengthWhenRetriesPositive ==
    dpc = "returned" =>
        /\ dresult.returned
        /\ DB_MAX_RETRIES >= 1 => dresult.count = Len(tuples)
        /\ DB_MAX_RETRIES = 0 => dresult.count = 0 /\ writes = <<>>

\* five rows in chunks of two, the last chunk written on its second attempt
C10_Witness ==
    /\ dpc = "returned"
    /\ DB_MAX_RETRIES = 2
    /\ Len(tuples) = 5 /\ batch_size = 2
    /\ Len(writes) = 2 /\ writes[1] \in DbErrors /\ writes[2] = "ok"
    /\ dresult = Ret(5)

\* C18 as stated: the backoff delays of one chunk are DB_BACKOFF_BASE after
\* the first failed attempt and twice the previous delay after each later one,
\* and no delay follows the chunk's final failed attempt.
C18_BackoffDoublesFromBase ==
    /\ dsleeps # <<>> => dsleeps[1] = DB_BACKOFF_BASE
    /\ \A k \in 2..Len(dsleeps) : dsleeps[k] = 2 * dsleeps[k - 1]
    /\ dpc = "raised" => Len(dsleeps) = Len(writes) - 1


(***************************************************************************)
(*                    properties of parse_daily_response                   *)
(***************************************************************************)
\* what the text of one field is worth, told from the entry alone
FieldRejected(items, numbered, plain, table) ==
    /\ FieldText(items, numbered, plain) # None
    /\ FieldText(items, numbered, plain) \notin DOMAIN table
FieldValue(items, numbered, plain, table) ==
    IF FieldText(items, numbered, plain) \in DOMAIN table
    THEN table[FieldText(items, numbered, plain)]
    ELSE 0
\* the entry's parsing throws: the value is no mapping, or a field's text is rejected
Throws(values) ==
    \/ values.kind # "dict"
    \/ FieldRejected(values.items, "1. open", "open", FloatLiterals)
    \/ FieldRejected(values.items, "2. high", "high", FloatLiterals)
    \/ FieldRejected(values.items, "3. low", "low", FloatLiterals)
    \/ FieldRejected(values.items, "4. close", "close", FloatLiterals)
    \/ FieldRejected(values.items, "6. volume", "volume", IntLiterals)
\* the record of one entry: rejected or absent fields are worth the default
RecordOf(sym, date, values) ==
    Row(Strip(sym), date,
        FieldValue(values.items, "1. open", "open", FloatLiterals),
        FieldValue(values.items, "2. high", "high", FloatLiterals),
        FieldValue(values.items, "3. low", "low", FloatLiterals),
        FieldValue(values.items, "4. close", "close", FloatLiterals),
        FieldValue(values.items, "6. volume", "volume", IntLiterals),
        values)
\* the records of the entries that do not throw, in source order
RECURSIVE RecordsOfSound(_, _)
RecordsOfSound(sym, entries) ==
    IF entries = <<>> THEN <<>>
    ELSE IF Throws(Head(entries)[2]) THEN RecordsOfSound(sym, Tail(entries))
    ELSE <<RecordOf(sym, Head(entries)[1], Head(entries)[2])>>
         \o RecordsOfSound(sym, Tail(entries))
\* the records of the entries whose value is a mapping, in source order
RECURSIVE RecordsOfMappings(_, _)
RecordsOfMappings(sym, entries) ==
    IF entries = <<>> THEN <<>>
    ELSE IF Head(entries)[2].kind # "dict" THEN RecordsOfMappings(sym, Tail(entries))
    ELSE <<RecordOf(sym, Head(entries)[1], Head(entries)[2])>>
         \o RecordsOfMappings(sym, Tail(entries))

WellFormed(json) ==
    /\ json.hasTs /\ json.isMap
    /\ \A k \in 1..Len(json.entries) : ~Throws(json.entries[k][2])
ParseReturned == ppc = "returned" /\ jpc = "idle"

\* C15: for a payload whose time-series mapping is well formed (it is a mapping
\* and no entry's parsing throws), parse_daily_response returns one record per
\* date entry, in the mapping's order, each with the symbol (trimmed), the
\* entry's date, the parsed open/high/low/close/volume and the entry's value
\* mapping as raw.
C15_OneRecordPerEntryInOrder ==
    (ParseReturned /\ WellFormed(pjson)) =>
        /\ Len(results) = Len(pjson.entries)
        /\ \A k \in 1..Len(results) :
              results[k] = RecordOf(psymbol, pjson.entries[k][1], pjson.entries[k][2])
C15_Witness ==
    /\ ParseReturned /\ WellFormed(pjson)
    /\ psymbol = " MSFT "
    /\ Len(pjson.entries) = MaxEntries
    /\ pjson.entries[1][1] = "2024-01-04" /\ pjson.entries[2][1] = "2024-01-02"
    /\ pjson.entries[1][2] = RawDict(ExampleValues)
    /\ results[1] = Row("MSFT", "2024-01-04", 1050, 1100, 1000, 1080, 1000,
                        RawDict(ExampleValues))
    /\ results[2].close = 0

\* C16 as stated: an entry with a field that is absent or fails to parse still
\* yields its record, with the default for that field only.
C16_FieldDefaultsKeepTheRecord ==
    (ParseReturned /\ pjson.hasTs /\ pjson.isMap) =>
        results = RecordsOfMappings(psymbol, pjson.entries)

\* C17: an entry whose parsing throws is skipped alone: the output is the
\* records of the entries that did not throw, in source order, and while the
\* loop runs it is the records of the sound entries among those consumed.
C17_ThrowingEntrySkippedAlone ==
    /\ (ppc = "loop" /\ jpc = "idle") =>
          results = RecordsOfSound(psymbol, SubSeq(pjson.entries, 1, pidx))
    /\ (ParseReturned /\ pjson.hasTs /\ pjson.isMap) =>
          results = RecordsOfSound(psymbol, pjson.entries)
C17_Witness ==
    /\ ParseReturned
    /\ Len(pjson.entries) = 3
    /\ ~Throws(pjson.entries[1][2])
    /\ pjson.entries[2][2] = RawNone
    /\ ~Throws(pjson.entries[3][2])
    /\ Len(results) = 2
    /\ results[2].ts = pjson.entries[3][1]

(***************************************************************************)
(*                         properties of stock_job                         *)
(***************************************************************************)
ConfigFailures == {"API_KEY not set", "No STOCK_SYMBOLS configured"}
\* the loop over the symbols has been entered
Started == jpc # "idle" /\ jresult.msg \notin ConfigFailures
\* the loop over the symbols has been left
LoopOver ==
    \/ jpc \in {"upsert_rows", "upserting", "done"}
    \/ jpc = "failed" /\ jresult.msg \notin ConfigFailures
IsFetch(e) == e.ev = "fetch"
FetchEvents == SelectSeq(jlog, IsFetch)
\* the number of records the symbols have yielded so far
RECURSIVE Yielded(_)
Yielded(log) ==
    IF log = <<>> THEN 0
    ELSE (IF Head(log).ev = "rows" THEN Head(log).n ELSE 0) + Yielded(Tail(log))
\* the symbols of the records the symbols have yielded so far, in order
RECURSIVE YieldedSymbols(_)
YieldedSymbols(log) ==
    IF log = <<>> THEN <<>>
    ELSE (IF Head(log).ev = "rows" THEN [k \in 1..Head(log).n |-> Head(log).sym] ELSE <<>>)
         \o YieldedSymbols(Tail(log))

\* C11 as stated: between two consecutive fetch calls the polite delay is
\* slept, whatever the earlier fetch's outcome, and no delay follows the fetch
\* of the last symbol.
C11_DelayBetweenConsecutiveFetches ==
    Started =>
        /\ \A a, b \in 1..Len(jlog) :
              (a < b /\ jlog[a].ev = "fetch" /\ jlog[b].ev = "fetch"
                     /\ jlog[a].sym # jlog[b].sym) =>
                  \E m \in (a + 1)..(b - 1) : jlog[m].ev = "sleep"
        /\ \A a, b \in 1..Len(jlog) :
              (a < b /\ jlog[a].ev = "fetch" /\ jlog[a].n = Len(symbols) - 1) =>
                  jlog[b].ev # "sleep"

\* C12 as stated: the run fails after the loop exactly when no symbol yielded
\* a record, otherwise goes on to persistence, and when persistence succeeds
\* reports a count equal to the number of records aggregated.
C12_FailsIffNothingYieldedElseReportsAggregate ==
    /\ (jpc = "failed" /\ jresult.msg = "No data fetched for any symbol.") =>
          Yielded(jlog) = 0
    /\ jpc \in {"upsert_rows", "upserting", "done"} => Yielded(jlog) > 0
    /\ jpc = "done" =>
          /\ jresult = JobCount(Yielded(jlog))
          /\ Yielded(jlog) = Len(all_rows)

\* C12: the run fails after the loop exactly when no symbol yielded a record,
\* otherwise goes on to persistence, and when persistence succeeds with
\* DB_MAX_RETRIES at least 1 reports a count equal to the number of records
\* aggregated over all symbols.
C12_FailsIffNothingYieldedElseReportsAggregateWhenRetriesPositive ==
    /\ (jpc = "failed" /\ jresult.msg = "No data fetched for any symbol.") =>
          Yielded(jlog) = 0
    /\ jpc \in {"upsert_rows", "upserting", "done"} => Yielded(jlog) > 0
    /\ (jpc = "done" /\ DB_MAX_RETRIES >= 1) =>
          /\ jresult = JobCount(Yielded(jlog))
          /\ Yielded(jlog) = Len(all_rows)
C12_Witness ==
    /\ jpc = "done"
    /\ DB_MAX_RETRIES >= 1
    /\ Len(symbols) = 2
    /\ jresult = JobCount(2)
    /\ Len(store) = 2

\* C13: every configured symbol is fetched once, in the configured order: no
\* outcome of one symbol (no payload, zero records, exception) stops the loop,
\* and the aggregate is the yielded records in symbol order.
C13_EverySymbolFetchedOnceInOrder ==
    Started =>
        /\ Len(FetchEvents) <= Len(symbols)
        /\ \A k \in 1..Len(FetchEvents) :
              FetchEvents[k].sym = symbols[k] /\ FetchEvents[k].n = k - 1
        /\ LoopOver => Len(FetchEvents) = Len(symbols)
        /\ [k \in 1..Len(all_rows) |-> all_rows[k].symbol] = YieldedSymbols(jlog)
C13_Witness ==
    /\ jpc = "upsert_rows"
    /\ symbols = <<"MSFT", "AAPL">>
    /\ \E m \in 1..Len(jlog) : jlog[m] = Event("exception", "MSFT", 0)
    /\ \E m \in 1..Len(jlog) : jlog[m] = Event("rows", "AAPL", 1)
    /\ Len(all_rows) = 1

IsUpsert(e) == e.ev = "upsert"
\* C14: no store write happens before the last symbol has been fetched and
\* normalized, and the batch upsert is invoked at most once per run, with the
\* whole aggregate.
C14_PersistenceOnceAfterAllSymbols ==
    /\ jpc \in {"idle", "for", "fetching", "parsing", "tail", "upsert_rows"} =>
          /\ dpc = "idle"
          /\ writes = <<>>
          /\ store = <<>>
          /\ engine = None
    /\ Len(SelectSeq(jlog, IsUpsert)) <= 1
    /\ dpc # "idle" =>
          /\ si = Len(symbols)
          /\ tuples = [k \in 1..Len(all_rows) |-> ToTuple(all_rows[k])]
          /\ Len(SelectSeq(jlog, IsUpsert)) = 1
C14_Witness ==
    /\ jpc = "upserting"
    /\ dpc = "for"
    /\ Len(symbols) = 2
    /\ Len(tuples) = 2
    /\ tuples[1][1] = "AAPL" /\ tuples[2][1] = "MSFT"
    /\ store = ExecuteValues(<<>>, tuples).tbl

\* C19: a payload returned by fetch_daily_time_series is the body of the last
\* request made, has a time-series key and neither the rate-limit marker nor
\* the error-message key; so the guard of parse_daily_response's
\* missing-key branch is false at every call the driver makes.
C19_ReturnedPayloadHasTimeSeries ==
    /\ (jpc = "fetching" /\ fpc = "returned" /\ fresult # NoData) =>
          /\ requests # <<>>
          /\ fresult = Last(requests)
          /\ fresult.kind = "json"
          /\ fresult.ts /\ ~fresult.note /\ ~fresult.err
    /\ jpc = "parsing" => (pjson.hasTs /\ ~pmissing)
C19_Witness ==
    /\ jpc = "parsing"
    /\ ppc = "loop"
    /\ pjson.hasTs
    /\ si = 1
    /\ Len(pjson.entries) = 2

\* C20: upsert_rows starts only after fetch_and_parse has returned without
\* raising, and with a list that is not empty; a run in which no symbol yields
\* a record performs no store write.
C20_PersistenceOnlyWithRecords ==
    /\ jpc \in {"upsert_rows", "upserting"} =>
          /\ success_any
          /\ all_rows # <<>>
          /\ si = Len(symbols)
          /\ jresult = NoOutcome
    /\ (Started /\ Yielded(jlog) = 0) =>
          /\ dpc = "idle"
          /\ writes = <<>>
          /\ store = <<>>
C20_Witness ==
    /\ jpc = "failed"
    /\ jresult = JobFailed("No data fetched for any symbol.")
    /\ Len(symbols) = 2
    /\ \E m \in 1..Len(jlog) : jlog[m].ev = "zero"
    /\ \E m \in 1..Len(jlog) : jlog[m].ev = "nodata"
    /\ store = <<>>
====
